---- MODULE Spec2Model ----
(***************************************************************************)
(* Roblox analytics tracker: the polling loop of app.js (startTracking,    *)
(* recordData, fetchGameData, loadData, saveData, computeGrowth) and the   *)
(* query handlers, as a state machine.  Every await of the code is a point *)
(* where other callbacks may run, so every await is the boundary between   *)
(* two actions; what runs between two awaits is one action.                *)
(***************************************************************************)
EXTENDS Integers, Sequences, FiniteSets, TLC

\* ------------------------------------------------------------------ bounds

\* How many times the interval timers fire, all keys together, in a
\* behaviour.
MaxFires == 2

\* The largest magnitude of the numbers computeGrowth is called with when
\* it is examined on its own.
MaxCount == 150

\* ------------------------------------------------------- program constants

\* config.js: universeIds.  The two configured ids (6705549208, 7436755782)
\* exceed TLC's integers; 1 and 2 stand for them, in configuration order.
universeIds == <<1, 2>>

\* An identifier that is not configured, for the query handlers.
UntrackedId == 3

Keys == {universeIds[i] : i \in 1..Len(universeIds)}

\* ------------------------------------------------------------- JS values

\* A JSON/JS value as far as the code inspects it: its typeof and, for a
\* number, the number.
Num(n) == [t |-> "number", v |-> n]
Undefined == [t |-> "undefined", v |-> 0]
Null == [t |-> "null", v |-> 0]
Str == [t |-> "string", v |-> 0]

\* JS truthiness of a value: undefined, null and the number 0 are falsy;
\* Str stands for a non-empty string.
Truthy(x) == x.t = "string" \/ (x.t = "number" /\ x.v # 0)

\* ------------------------------------------------- floating point results

RECURSIVE GCD(_, _)
GCD(a, b) == IF b = 0 THEN a ELSE GCD(b, a % b)

Abs(n) == IF n < 0 THEN -n ELSE n

\* A growth percentage is kept as the exact fraction num/den in lowest
\* terms with den > 0 (the double the code computes, without its rounding).
Frac(n, d) ==
    LET g == GCD(Abs(n), Abs(d))
        s == IF d < 0 THEN -1 ELSE 1
    IN  [num |-> (s * n) \div g, den |-> (s * d) \div g]

Zero == [num |-> 0, den |-> 1]

FracTimes(f, n) == Frac(f.num * n, f.den)

Sign(n) == IF n > 0 THEN 1 ELSE IF n < 0 THEN -1 ELSE 0

\* computeGrowth whose guard tests for undefined only (114): with null or 0
\* as the baseline the division of 117 is by zero, and the result is
\* Infinity, -Infinity or NaN: num is the sign, den is 0.
computeGrowthUndefinedOnly(current, previous) ==
    IF previous.t = "undefined" THEN [num |-> 0, den |-> 1]
    ELSE IF previous.v = 0 THEN [num |-> Sign(current), den |-> 0]
    ELSE Frac((current - previous.v) * 100, previous.v)

\* computeGrowth without the factor of 117: the ratio, not the percentage.
computeGrowthRatio(current, previous) ==
    IF ~(previous.t = "string" \/ (previous.t = "number" /\ previous.v # 0))
    THEN [num |-> 0, den |-> 1]
    ELSE Frac(current - previous.v, previous.v)

\* computeGrowth(current, previous), app.js 113-118.
\* `previous` is a JS value, `current` a number.
computeGrowth(current, previous) ==
    IF ~Truthy(previous) \/ (previous.t = "number" /\ previous.v = 0)
    THEN Zero
    ELSE FracTimes(Frac(current - previous.v, previous.v), 100)

\* ------------------------------------------------------------ remote API

\* What the Games API may answer to one request (fetchGameData, 59-69):
\* the call throws, the status is not ok, the body has no data entry, or
\* data[0] is a game whose visits and playing are JS values.
GameStats ==
    { [visits |-> Num(100), playing |-> Num(10)],
      [visits |-> Num(150), playing |-> Num(5)],
      [visits |-> Str,      playing |-> Undefined] }

Responses ==
    { [kind |-> "error"], [kind |-> "status"], [kind |-> "nodata"] }
    \cup { [kind |-> "game", game |-> g] : g \in GameStats }

\* fetchGameData with a default instead of the throw of line 66: a body
\* without a data entry counts as a game with no visits and no players.
fetchGameDataDefaults(r) ==
    IF r.kind = "error" THEN [ok |-> FALSE]
    ELSE IF r.kind = "status" THEN [ok |-> FALSE]
    ELSE IF r.kind = "nodata" THEN [ok |-> TRUE, visits |-> 0, playing |-> 0]
    ELSE [ok |-> TRUE,
          visits  |-> IF r.game.visits.t = "number" THEN r.game.visits.v ELSE 0,
          playing |-> IF r.game.playing.t = "number" THEN r.game.playing.v ELSE 0]

\* fetchGameData that throws where lines 68-69 put 0: a visits or playing
\* that is not a number counts as a malformed body.
fetchGameDataStrict(r) ==
    IF r.kind # "game" THEN [ok |-> FALSE]
    ELSE IF r.game.visits.t # "number" \/ r.game.playing.t # "number"
    THEN [ok |-> FALSE]
    ELSE [ok |-> TRUE, visits |-> r.game.visits.v, playing |-> r.game.playing.v]

\* fetchGameData, app.js 58-71: what it returns or that it throws.
fetchGameData(r) ==
    IF r.kind = "error" THEN [ok |-> FALSE]
    ELSE IF r.kind = "status" THEN [ok |-> FALSE]
    ELSE IF r.kind = "nodata" THEN [ok |-> FALSE]
    ELSE [ok |-> TRUE,
          visits  |-> IF r.game.visits.t = "number" THEN r.game.visits.v ELSE 0,
          playing |-> IF r.game.playing.t = "number" THEN r.game.playing.v ELSE 0]

\* ----------------------------------------------------------- sample store

\* The content of a key's data file: no file, a complete JSON document
\* (JSON.stringify of an array, kept as the array), or a document that was
\* truncated and not completely rewritten, which JSON.parse rejects.
\* `mixed` says that two writes of the file have overlapped since it was
\* last truncated by a lone writer.
Absent == [kind |-> "absent", data |-> <<>>, mixed |-> FALSE]
JSONStringify(data) == [kind |-> "json", data |-> data, mixed |-> FALSE]
Partial(m) == [kind |-> "partial", data |-> <<>>, mixed |-> m]

\* One file for all keys: the name does not depend on the id.
filePathShared(universeId) == universeIds[1]

\* 82, 99: path.join(DATA_DIR, `${universeId}.json`).  A file is named by
\* the id it belongs to: the file of id k is disk[k].
filePath(universeId) == universeId

\* fs.readFile: the content, or an error (no such file, or an I/O error).
ReadError == [err |-> TRUE, content |-> Absent]
ReadOk(content) == [err |-> FALSE, content |-> content]

\* loadData, app.js 81-89, applied to what readFile gave.
loadData(read) ==
    IF read.err THEN <<>>
    ELSE IF read.content.kind = "json" THEN read.content.data
    ELSE <<>>

\* loadData whose catch returns [] only for a failed read: a document
\* that JSON.parse rejects makes loadData reject.
loadDataThrowsOnParse(read) == ~read.err /\ read.content.kind # "json"

\* loadData, 83-88: whether the promise loadData returns rejects.  The try
\* block holds the whole body and the catch returns: it never does.
loadDataThrows(read) == FALSE

\* recordData 133 taking the oldest sample as the baseline: data[0].
firstOf(data) == data[1]

\* recordData 133: const last = data[data.length - 1]
lastOf(data) == data[Len(data)]

\* recordData 134-135 without the guard for an empty history: the first
\* sample is given the growth of a rise from nothing, 100.
newSampleFirstFull(visits, playing, now, data) ==
    [timestamp |-> now, visits |-> visits, playing |-> playing,
     visitsGrowth  |-> IF data # <<>>
                       THEN computeGrowth(visits, Num(lastOf(data).visits))
                       ELSE [num |-> 100, den |-> 1],
     playingGrowth |-> IF data # <<>>
                       THEN computeGrowth(playing, Num(lastOf(data).playing))
                       ELSE [num |-> 100, den |-> 1]]

\* recordData 133-136: the sample built from the fetched numbers, the
\* timestamp and the loaded history.
newSample(visits, playing, now, data) ==
    [timestamp |-> now, visits |-> visits, playing |-> playing,
     visitsGrowth  |-> IF data # <<>>
                       THEN computeGrowth(visits, Num(lastOf(data).visits))
                       ELSE Zero,
     playingGrowth |-> IF data # <<>>
                       THEN computeGrowth(playing, Num(lastOf(data).playing))
                       ELSE Zero]

\* ------------------------------------------------------------------ state

VARIABLES
    disk,       \* disk[k]: the content of data/<k>.json
    history,    \* history[k]: the history stored for key k, as of the end
                \* of the last write that reached the file: the array it
                \* left there, <<>> when it left the document incomplete
                \* (and <<>> while there is no file)
    cyc,        \* cyc[c]: the call of recordData numbered c: where it is
                \* (pc), its argument (key), its locals (visits, playing,
                \* now, data), and whether it has been the only call for
                \* its key between its loadData and its saveData (alone)
    armed,      \* armed[k]: setInterval has been called for key k
    fires,      \* fires[k]: how many times the timer of key k has fired
    trackPos,   \* startTracking: 0 awaiting mkdir, i awaiting the initial
                \* recordData of universeIds[i], Len+1 returned, -1 rejected
    clock,      \* the wall clock (new Date()), in ticks: toISOString
                \* gives strings of one width that order as the ticks do
    lastLog,    \* the last line logged about a call of recordData, and the
                \* key it names: "recorded" (139), or the error caught (141),
                \* thrown by fetchGameData ("fetch_error") or by saveData
                \* ("write_error"); "uncaught" for an error that left
                \* recordData, which the runtime reports
    resp,       \* the query handler that sends its response in the current
                \* turn of the event loop (NoReply between such turns): its
                \* route, its id, the records it has read (loaded), its
                \* local data, and the status and body it sends
    allData,    \* the GET /api/data handler in flight: whether there is
                \* one, and the histories its loop has put in result so far
    calc        \* a call of computeGrowth on its own: the arguments and
                \* the value returned (NoCalc in the server's behaviours)

vars == <<disk, history, cyc, armed, fires, trackPos, clock, lastLog, resp, allData, calc>>

NKeys == Len(universeIds)

\* Calls 1..NKeys of recordData are the initial calls of startTracking (155),
\* call NKeys+j is the one made by the j-th firing of a timer (158).
CycleIds == 1..(NKeys + MaxFires)

Idle ==
    [pc |-> "idle", key |-> 0, visits |-> 0, playing |-> 0, now |-> 0,
     data |-> <<>>, alone |-> FALSE]

\* recordData(k) up to its first await: fetch has been called.
Fetching(k) == [Idle EXCEPT !.pc = "fetch", !.key = k]

\* recordData has returned; its locals are gone.
Returned == [Idle EXCEPT !.pc = "done"]

NoLog == [line |-> "none", key |-> 0]

InWindow(x) == x.pc \in {"load", "write", "writing"}

NoReply ==
    [route |-> "none", id |-> 0, loaded |-> {}, data |-> <<>>,
     status |-> 0, body |-> <<>>]

\* No GET /api/data request is being served.
NoRequest == [active |-> FALSE, result |-> <<>>]

\* computeGrowth is not being called on its own.
NoCalc == [current |-> 0, previous |-> Undefined, called |-> FALSE, result |-> Zero]

\* A handler runs from its last await to res.json without interruption:
\* no other callback starts while a response is being sent.
TurnFree == resp = NoReply

Init ==
    /\ disk = [k \in Keys |-> Absent]
    /\ history = [k \in Keys |-> <<>>]
    /\ cyc = [c \in CycleIds |-> Idle]
    /\ armed = [k \in Keys |-> FALSE]
    /\ fires = [k \in Keys |-> 0]
    /\ trackPos = 0
    /\ clock = 0
    /\ lastLog = NoLog
    /\ resp = NoReply
    /\ allData = NoRequest
    /\ calc = NoCalc

\* computeGrowth on its own: the arguments it is called with.  current is a
\* number; previous is a number, undefined or null.
Currents == (0 - MaxCount)..MaxCount
Previouses == {Num(n) : n \in (0 - MaxCount)..MaxCount} \cup {Undefined, Null}

\* The server as Init leaves it, and a call of computeGrowth about to be
\* made with any of these arguments.
GrowthInit ==
    /\ disk = [k \in Keys |-> Absent]
    /\ history = [k \in Keys |-> <<>>]
    /\ cyc = [c \in CycleIds |-> Idle]
    /\ armed = [k \in Keys |-> FALSE]
    /\ fires = [k \in Keys |-> 0]
    /\ trackPos = 0
    /\ clock = 0
    /\ lastLog = NoLog
    /\ resp = NoReply
    /\ allData = NoRequest
    /\ calc \in {[NoCalc EXCEPT !.current = c, !.previous = p] :
                    c \in Currents, p \in Previouses}

\* 113-118: the call returns.
Compute ==
    /\ ~calc.called
    /\ calc' = [calc EXCEPT !.called = TRUE,
                            !.result = computeGrowth(calc.current, calc.previous)]
    /\ UNCHANGED <<disk, history, cyc, armed, fires, trackPos, clock, lastLog,
                   resp, allData>>

\* --------------------------------------------------------- startTracking

\* 152-155: ensureDataDir resolved; the loop calls recordData for the first
\* key and awaits it.
MkdirReturn ==
    /\ TurnFree
    /\ trackPos = 0
    /\ trackPos' = 1
    /\ cyc' = [cyc EXCEPT ![1] = Fetching(universeIds[1])]
    /\ UNCHANGED <<disk, history, armed, fires, clock, lastLog, resp, allData,
                   calc>>

\* 152, 165: ensureDataDir rejected; startTracking rejects and the error is
\* logged by the catch of line 165.
MkdirFail ==
    /\ TurnFree
    /\ trackPos = 0
    /\ trackPos' = -1
    /\ UNCHANGED <<disk, history, cyc, armed, fires, clock, lastLog, resp,
                   allData, calc>>

\* startTracking arming the timer only when the initial cycle recorded a
\* sample.
armsAfterSuccessOnly(res) == res = "recorded"

\* After the initial recordData of a key returns, startTracking goes on
\* (155-160): whether setInterval is then called for the key.
armsAfter(res) == TRUE

\* recordData with the try block around the remote call only: an error of
\* saveData leaves recordData.
caughtFetchOnly(res) == res # "write_error"

\* recordData 129-142: whether an error thrown in the body is caught.  The
\* try block holds the whole body, so every error is.
caught(res) == TRUE

\* recordData call c returns after logging the line res.  When it is the
\* initial call that startTracking awaits, startTracking resumes in the
\* same turn: setInterval for the key (157), then recordData for the next
\* key (155).
\* An error that is not caught makes the promise of recordData reject:
\* nothing is logged by recordData; startTracking, when it awaits the call,
\* rejects too (155, 165) and arms no timer.
Return(c, res) ==
    LET done == [cyc EXCEPT ![c] = Returned]
    IN  IF caught(res)
        THEN /\ lastLog' = [line |-> res, key |-> cyc[c].key]
             /\ IF c <= NKeys
                THEN /\ armed' = [armed EXCEPT ![cyc[c].key] = armsAfter(res)]
                     /\ trackPos' = c + 1
                     /\ cyc' = IF c < NKeys
                               THEN [done EXCEPT
                                       ![c + 1] = Fetching(universeIds[c + 1])]
                               ELSE done
                ELSE /\ cyc' = done
                     /\ UNCHANGED <<armed, trackPos>>
        ELSE /\ lastLog' = [line |-> "uncaught", key |-> cyc[c].key]
             /\ cyc' = done
             /\ trackPos' = IF c <= NKeys THEN -1 ELSE trackPos
             /\ armed' = armed

RECURSIVE SumTo(_, _)
SumTo(f, i) == IF i = 0 THEN 0 ELSE f[universeIds[i]] + SumTo(f, i - 1)

TotalFires == SumTo(fires, NKeys)

\* 157-159: the interval timer of key k fires and calls recordData(k).
TimerFire(k) ==
    /\ TurnFree
    /\ armed[k]
    /\ TotalFires < MaxFires
    /\ fires' = [fires EXCEPT ![k] = @ + 1]
    /\ cyc' = [cyc EXCEPT ![NKeys + TotalFires + 1] = Fetching(k)]
    /\ UNCHANGED <<disk, history, armed, trackPos, clock, lastLog, resp,
                   allData, calc>>

\* ------------------------------------------------------------- recordData

\* The remote call of call c is answered with r (the awaits of 59 and 63
\* touch nothing the program shares).
\* 130, 140-142: fetchGameData throws; the catch logs the error and
\* recordData returns.
\* 130-132: fetchGameData returns; the timestamp is taken, a tick after the
\* previous reading of the clock, and readFile is called.  Other calls for
\* the same key that are between their load and their write are no longer
\* alone.
FetchAnswer(c, r) ==
    /\ TurnFree
    /\ cyc[c].pc = "fetch"
    /\ LET got == fetchGameData(r)
           k == cyc[c].key
       IN  IF ~got.ok
           THEN /\ Return(c, "fetch_error")
                /\ UNCHANGED <<disk, history, fires, clock, resp, allData,
                               calc>>
           ELSE /\ clock' = clock + 1
                /\ cyc' = [x \in CycleIds |->
                      IF x = c
                      THEN [cyc[c] EXCEPT
                              !.pc = "load",
                              !.visits = got.visits, !.playing = got.playing,
                              !.now = clock',
                              !.alone = \A y \in CycleIds \ {c} :
                                  ~(cyc[y].key = k /\ InWindow(cyc[y]))]
                      ELSE IF cyc[x].key = k /\ InWindow(cyc[x])
                      THEN [cyc[x] EXCEPT !.alone = FALSE]
                      ELSE cyc[x]]
                /\ UNCHANGED <<disk, history, armed, fires, trackPos,
                               lastLog, resp, allData, calc>>

FetchReturn(c) == \E r \in Responses : FetchAnswer(c, r)

\* What readFile may give for key k now: the content, unless there is no
\* file (no file of an id that is not configured is ever written); an error
\* in any case (ENOENT, or an I/O error such as EMFILE).
ReadOutcomes(k) ==
    {ReadError} \cup
    (IF filePath(k) \notin Keys \/ disk[filePath(k)].kind = "absent"
     THEN {}
     ELSE {ReadOk(disk[filePath(k)])})

\* 132-138: readFile settles, loadData returns the history, the sample is
\* computed and pushed, the array is serialised and writeFile is called.
\* (Were loadData to reject, the catch of 140-142 would log the error.)
LoadReturn(c) ==
    /\ TurnFree
    /\ cyc[c].pc = "load"
    /\ \E read \in ReadOutcomes(cyc[c].key) :
         IF loadDataThrows(read)
         THEN Return(c, "load_error")
         ELSE LET data == loadData(read)
                  sample == newSample(cyc[c].visits, cyc[c].playing,
                                      cyc[c].now, data)
              IN  /\ cyc' = [cyc EXCEPT ![c].pc = "write",
                                        ![c].data = Append(data, sample)]
                  /\ UNCHANGED <<armed, trackPos, lastLog>>
    /\ UNCHANGED <<disk, history, fires, clock, resp, allData, calc>>

OtherWriter(c) ==
    \E y \in CycleIds \ {c} : cyc[y].key = cyc[c].key /\ cyc[y].pc = "writing"

\* 100: writeFile opens the file for writing, which truncates it; the
\* document is not complete until the write ends.
WriteOpen(c) ==
    /\ TurnFree
    /\ cyc[c].pc = "write"
    /\ disk' = [disk EXCEPT ![filePath(cyc[c].key)] = Partial(OtherWriter(c))]
    /\ cyc' = [cyc EXCEPT ![c].pc = "writing"]
    /\ UNCHANGED <<history, armed, fires, trackPos, clock, lastLog, resp,
                   allData, calc>>

\* 100, 138-139: writeFile resolves; recordData logs and returns.  The file
\* holds the document written, unless another write of the same file
\* overlapped this one: then it may hold a mix of the two documents.
WriteReturn(c) ==
    /\ TurnFree
    /\ cyc[c].pc = "writing"
    /\ LET k == cyc[c].key
           file == filePath(k)
           whole == [JSONStringify(cyc[c].data) EXCEPT !.mixed = disk[file].mixed]
       IN  \E content \in {whole} \cup
                 (IF disk[file].mixed \/ OtherWriter(c)
                  THEN {Partial(TRUE)} ELSE {}) :
             /\ disk' = [disk EXCEPT ![file] = content]
             /\ history' = [history EXCEPT ![k] = loadData(ReadOk(content))]
    /\ Return(c, "recorded")
    /\ UNCHANGED <<fires, clock, resp, allData, calc>>

\* 100, 140-142: writeFile rejects and the catch logs the error: before the
\* file was opened (the file is as it was), or after (the file stays
\* incomplete; when another write completed it meanwhile, it is complete
\* or a mix of the two documents).
WriteFail(c) ==
    /\ TurnFree
    /\ cyc[c].pc \in {"write", "writing"}
    /\ LET k == cyc[c].key
       IN  IF cyc[c].pc = "write"
           THEN UNCHANGED <<disk, history>>
           ELSE \E content \in {disk[filePath(k)], Partial(TRUE)} :
                  /\ disk[filePath(k)].kind = "partial"
                        => content = disk[filePath(k)]
                  /\ disk' = [disk EXCEPT ![filePath(k)] = content]
                  /\ history' = [history EXCEPT ![k] = loadData(ReadOk(content))]
    /\ Return(c, "write_error")
    /\ UNCHANGED <<fires, clock, resp, allData, calc>>

\* ---------------------------------------------------------- query surface

\* Number(req.params.id) for the identifiers of this model is the number.
RequestIds == Keys \cup {UntrackedId}

\* The check of 196 and 214 left out: every id counts as tracked.
includesUnchecked(id) == TRUE

\* 196, 214: universeIds.includes(id)
includes(id) == id \in Keys

\* 197, 215: res.status(404).json({error: ...}), and the handler returns.
NotFound(route, id) ==
    [route |-> route, id |-> id, loaded |-> {}, data |-> <<>>,
     status |-> 404, body |-> <<>>]

\* An async handler whose loadData rejected: no res.json is reached, the
\* request ends without the status 200.
HandlerRejected(route, id) ==
    [route |-> route, id |-> id, loaded |-> {id}, data |-> <<>>,
     status |-> 500, body |-> <<>>]

\* 201, 220: res.json(body), after loadData(id) returned data.
Ok(route, id, data, body) ==
    [route |-> route, id |-> id, loaded |-> {id}, data |-> data,
     status |-> 200, body |-> body]

\* 194-202: GET /api/data/:id
GetData(id) ==
    /\ TurnFree
    /\ ~allData.active
    /\ IF ~includes(id)
       THEN resp' = NotFound("data", id)
       ELSE \E read \in ReadOutcomes(id) :
               IF loadDataThrows(read)
               THEN resp' = HandlerRejected("data", id)
               ELSE resp' = Ok("data", id, loadData(read), loadData(read))
    /\ UNCHANGED <<disk, history, cyc, armed, fires, trackPos, clock, lastLog,
                   allData, calc>>

\* 219 keeping the whole entry: data.map((entry) => entry).
growthOnlyWhole(entry) == entry

\* 219: the growth-only view of one entry.
growthOnly(entry) ==
    [timestamp |-> entry.timestamp, visitsGrowth |-> entry.visitsGrowth,
     playingGrowth |-> entry.playingGrowth]

\* 212-221: GET /api/growth/:id
GetGrowth(id) ==
    /\ TurnFree
    /\ ~allData.active
    /\ IF ~includes(id)
       THEN resp' = NotFound("growth", id)
       ELSE \E read \in ReadOutcomes(id) :
               IF loadDataThrows(read)
               THEN resp' = HandlerRejected("growth", id)
               ELSE LET data == loadData(read)
                    IN  resp' = Ok("growth", id, data,
                                   [i \in 1..Len(data) |-> growthOnly(data[i])])
    /\ UNCHANGED <<disk, history, cyc, armed, fires, trackPos, clock, lastLog,
                   allData, calc>>

\* 180-183: a GET /api/data request arrives; the handler creates result and
\* calls loadData for the first key.  Requests are served one at a time in
\* this model (the handlers share nothing but the files they read): while
\* this handler is in flight no other request arrives.
GetAllStart ==
    /\ TurnFree
    /\ ~allData.active
    /\ allData' = [active |-> TRUE, result |-> <<>>]
    /\ UNCHANGED <<disk, history, cyc, armed, fires, trackPos, clock, lastLog,
                   resp, calc>>

\* 182-185: loadData of the key the loop is at returns and is stored in
\* result (kept in the order of universeIds); the loop calls loadData for
\* the next key, or, after the last key, the handler sends result.
GetAllLoad ==
    /\ TurnFree
    /\ allData.active
    /\ LET id == universeIds[Len(allData.result) + 1]
       IN  \E read \in ReadOutcomes(id) :
             IF loadDataThrows(read)
             THEN /\ resp' = [HandlerRejected("all", 0) EXCEPT !.loaded = Keys]
                  /\ allData' = NoRequest
             ELSE LET result == Append(allData.result, loadData(read))
                  IN  IF Len(result) < NKeys
                      THEN /\ allData' = [allData EXCEPT !.result = result]
                           /\ resp' = resp
                      ELSE /\ allData' = NoRequest
                           /\ resp' = [route |-> "all", id |-> 0,
                                       loaded |-> Keys, data |-> <<>>,
                                       status |-> 200, body |-> result]
    /\ UNCHANGED <<disk, history, cyc, armed, fires, trackPos, clock, lastLog,
                   calc>>

\* 185, 201, 220: res.json has handed the response to the framework and the
\* handler's turn ends.
ReplySent ==
    /\ resp # NoReply
    /\ resp' = NoReply
    /\ UNCHANGED <<disk, history, cyc, armed, fires, trackPos, clock, lastLog,
                   allData, calc>>

\* ------------------------------------------------------------------- next

\* The steps of startTracking, of the timers and of recordData.
Poll ==
    \/ MkdirReturn
    \/ MkdirFail
    \/ \E k \in Keys : TimerFire(k)
    \/ \E c \in CycleIds : FetchReturn(c)
    \/ \E c \in CycleIds : LoadReturn(c)
    \/ \E c \in CycleIds : WriteOpen(c)
    \/ \E c \in CycleIds : WriteReturn(c)
    \/ \E c \in CycleIds : WriteFail(c)

\* The steps of the handlers of the routes that take an id.
Query ==
    \/ \E id \in RequestIds : GetData(id)
    \/ \E id \in RequestIds : GetGrowth(id)

\* The steps of the handler of GET /api/data.
QueryAll == GetAllStart \/ GetAllLoad

Next == Poll \/ Query \/ QueryAll \/ ReplySent

Spec == Init /\ [][Next]_vars

\* The poller and the requests that name an id.
QuerySpec == Init /\ [][Poll \/ Query \/ ReplySent]_vars

\* The poller alone, with no query arriving.
PollSpec == Init /\ [][Poll]_vars

\* computeGrowth called once, on its own, with any arguments.
GrowthSpec == GrowthInit /\ [][Compute]_vars

\* --------------------------------------------------------------- fairness

\* The file operations of one call of recordData.
FileStep(c) == LoadReturn(c) \/ WriteOpen(c) \/ WriteReturn(c) \/ WriteFail(c)

\* The event loop runs the callback of an armed timer: a timer that stays
\* due is eventually fired.  Nothing else is assumed: the code sets no
\* timeout on the remote call.
FairSpec == PollSpec /\ \A k \in Keys : WF_vars(TimerFire(k))

\* Everything that can settle does, except the remote call of the initial
\* cycle of the first key, which may stay pending for ever (fetch is called
\* without a timeout, 59).
HangSpec ==
    /\ PollSpec
    /\ WF_vars(MkdirReturn \/ MkdirFail)
    /\ \A k \in Keys : WF_vars(TimerFire(k))
    /\ \A c \in CycleIds \ {1} : WF_vars(FetchReturn(c))
    /\ \A c \in CycleIds : WF_vars(FileStep(c))

\* ------------------------------------------------------------- properties

IsPrefix(s, t) == Len(s) <= Len(t) /\ SubSeq(t, 1, Len(s)) = s

\* The documents of key k that are complete: the history its record held
\* when its last write ended, and the document in the file now.
Persisted(k) ==
    {history[k]} \cup (IF disk[k].kind = "json" THEN {disk[k].data} ELSE {})

\* C1: every document a poll cycle leaves in a key's record extends the
\* history the record held before it: no sample persisted earlier is
\* removed, moved or changed.
C1_AppendOnly ==
    [][\A k \in Keys :
         (disk'[k] # disk[k] /\ disk'[k].kind = "json")
            => IsPrefix(history[k], disk'[k].data)]_vars

\* C2: a cycle that ends successfully adds exactly one sample to the key's
\* history, whatever other cycles of the key did meanwhile.  Stated for the
\* cycles that loaded a non-empty history and whose write left a complete
\* document, so that a failed read or a torn file does not count against it.
C2_OneSamplePerSuccess ==
    [][\A c \in CycleIds :
         (/\ WriteReturn(c)
          /\ Len(cyc[c].data) > 1
          /\ disk'[cyc[c].key].kind = "json")
            => Len(history'[cyc[c].key]) = Len(history[cyc[c].key]) + 1]_vars

\* C4: when a cycle with a successful fetch and a successful write was the
\* only cycle of its key between its load and its write, the record then
\* holds the history it held before with one sample added at the end, and
\* that sample carries the fetched visits and playing.
C4_AppendPostcondition ==
    [][\A c \in CycleIds :
         (WriteReturn(c) /\ cyc[c].alone)
            => /\ disk'[cyc[c].key].kind = "json"
               /\ Len(disk'[cyc[c].key].data) = Len(history[cyc[c].key]) + 1
               /\ IsPrefix(history[cyc[c].key], disk'[cyc[c].key].data)
               /\ lastOf(disk'[cyc[c].key].data).visits = cyc[c].visits
               /\ lastOf(disk'[cyc[c].key].data).playing = cyc[c].playing]_vars

\* C5: a cycle whose fetch fails (the call throws, the status is not ok, or
\* the body has no data entry) ends at once with an error logged: it never
\* reaches the load or the write, and the key's record and history are
\* what they were.
C5_FailedFetchRecordsNothing ==
    [][\A c \in CycleIds : \A r \in Responses :
         (r.kind # "game" /\ FetchAnswer(c, r))
            => /\ disk' = disk
               /\ history' = history
               /\ cyc'[c].pc = "done"
               /\ lastLog' = [line |-> "fetch_error", key |-> cyc[c].key]]_vars

\* C5 witness: a fetch of a key has just failed while the key's record
\* held a non-empty history.
C5_Witness ==
    /\ lastLog.line = "fetch_error"
    /\ history[lastLog.key] # <<>>
    /\ disk[lastLog.key].kind = "json"
    /\ disk[lastLog.key].data = history[lastLog.key]

GrowthChain(h) ==
    \A i \in 2..Len(h) :
        /\ h[i].visitsGrowth = computeGrowth(h[i].visits, Num(h[i - 1].visits))
        /\ h[i].playingGrowth = computeGrowth(h[i].playing, Num(h[i - 1].playing))

\* C7: in every persisted history, the growth fields of each sample after
\* the first are computeGrowth of its own counts and those of the sample
\* just before it.
C7_GrowthFromPredecessor ==
    \A k \in Keys : \A h \in Persisted(k) : GrowthChain(h)

\* C7 witness: a history whose second sample was recorded after 100 visits
\* and 10 playing, with 150 visits and 5 playing: growth 50 and -50.
C7_Witness ==
    \E k \in Keys :
        /\ Len(history[k]) >= 2
        /\ history[k][1].visits = 100 /\ history[k][1].playing = 10
        /\ history[k][2].visits = 150 /\ history[k][2].playing = 5
        /\ history[k][2].visitsGrowth = [num |-> 50, den |-> 1]
        /\ history[k][2].playingGrowth = [num |-> -50, den |-> 1]

\* C8: the first sample of every non-empty persisted history has growth 0
\* for visits and for playing.
C8_FirstSampleZeroGrowth ==
    \A k \in Keys : \A h \in Persisted(k) :
        h # <<>> => h[1].visitsGrowth = Zero /\ h[1].playingGrowth = Zero

\* C8 witness: a history of two samples whose first has non-zero counts and
\* zero growth, and whose second has non-zero growth.
C8_Witness ==
    \E k \in Keys :
        /\ Len(history[k]) >= 2
        /\ history[k][1].visits # 0
        /\ history[k][1].visitsGrowth = Zero
        /\ history[k][2].visitsGrowth # Zero

\* C9: in every persisted history the timestamps never decrease along the
\* sequence.
C9_TimestampsOrdered ==
    \A k \in Keys : \A h \in Persisted(k) :
        \A i \in 1..Len(h) : \A j \in i..Len(h) :
            h[i].timestamp <= h[j].timestamp

\* C10: a query for key k that loads the record while a write of it is in
\* progress answers with the complete history from before the write or the
\* complete history being written, never an empty one when the stored
\* history was not empty.
C10_NoPartialHistoryObserved ==
    [][\A k \in Keys :
         (/\ GetData(k)
          /\ history[k] # <<>>
          /\ \E c \in CycleIds : cyc[c].key = k /\ cyc[c].pc = "writing")
            => resp'.body \in
                 {history[k]} \cup
                 {cyc[c].data : c \in {x \in CycleIds :
                                   cyc[x].key = k /\ cyc[x].pc = "writing"}}]_vars

\* C3: the initial cycle of the second key is started whatever the remote
\* call of the first key does: once startTracking has passed ensureDataDir,
\* the second key's recordData is eventually called.
C3_KeysIndependent ==
    (trackPos >= 1) ~> (cyc[2].pc # "idle")

Failed(k) == lastLog.key = k /\ lastLog.line \in {"fetch_error", "write_error"}

\* C6: after a cycle of a key ends in failure the key's timer is armed, it
\* stays armed, every call of recordData is an initial call or a firing of
\* a timer (none is a retry), and, while the timers may still fire in this
\* model, the key's timer eventually fires again.
C6_TimerSurvivesFailure ==
    /\ [](\A k \in Keys : Failed(k) => armed[k])
    /\ [][\A k \in Keys : armed[k] => armed'[k]]_vars
    /\ [](trackPos >= 0 =>
            Cardinality({c \in CycleIds : cyc[c].pc # "idle"})
               = (IF trackPos > NKeys THEN NKeys ELSE trackPos) + TotalFires)
    /\ \A k \in Keys : \A n \in 0..(MaxFires - 1) :
          (Failed(k) /\ fires[k] = n /\ TotalFires < MaxFires)
             ~> (fires[k] > n \/ TotalFires = MaxFires)

\* C6 witness: the initial cycle of a key failed, and the key's timer has
\* fired since: its cycle is in flight.
C6_Witness ==
    \E k \in Keys :
        /\ Failed(k)
        /\ fires[k] = 1
        /\ \E c \in CycleIds : c > NKeys /\ cyc[c].key = k /\ cyc[c].pc = "fetch"

\* C11: loadData never fails.  Whenever a cycle's loadData returns, the
\* cycle goes on to its write with nothing logged, and with a history of
\* the new sample alone when the key's file is missing or incomplete; and a
\* query for a tracked key always answers 200, with the empty array when
\* the file is missing or incomplete.
C11_LoadNeverFails ==
    /\ [][\A c \in CycleIds :
            LoadReturn(c)
               => /\ cyc'[c].pc = "write"
                  /\ lastLog' = lastLog
                  /\ disk[cyc[c].key].kind # "json" => Len(cyc'[c].data) = 1]_vars
    /\ [](resp.route \in {"data", "growth"} /\ resp.id \in Keys
            => /\ resp.status = 200
               /\ disk[resp.id].kind # "json" => resp.body = <<>>)

\* C11 witness: while the file of a key that had a history is incomplete, a
\* cycle of the key has loaded it and goes on with the new sample alone,
\* and a query for the key is answered with 200 and the empty array.
C11_Witness ==
    \E k \in Keys :
        /\ disk[k].kind = "partial"
        /\ history[k] # <<>>
        /\ resp = Ok("data", k, <<>>, <<>>)
        /\ \E c \in CycleIds :
              cyc[c].key = k /\ cyc[c].pc = "write" /\ Len(cyc[c].data) = 1

CycleLines == {"recorded", "fetch_error", "write_error"}

\* C12: no failure of a cycle leaves the poller.  Every call of recordData
\* that ends has logged its success or its failure (a failed fetch and a
\* failed write as such), in a turn that sends no response; it leaves
\* startTracking running, every armed timer armed and, for an initial call,
\* the key's timer armed.  startTracking is rejected by ensureDataDir only,
\* no response has a status other than 200 or 404, and after a failure the
\* key can be queried and its timer can fire.
C12_NoFailureEscapes ==
    /\ [][\A c \in CycleIds :
            (cyc[c].pc \notin {"idle", "done"} /\ cyc'[c].pc = "done")
               => /\ lastLog'.key = cyc[c].key
                  /\ lastLog'.line \in CycleLines
                  /\ cyc[c].pc = "fetch" => lastLog'.line = "fetch_error"
                  /\ WriteFail(c) => lastLog'.line = "write_error"
                  /\ resp' = NoReply
                  /\ trackPos' >= 1
                  /\ \A k \in Keys : armed[k] => armed'[k]
                  /\ c <= NKeys => armed'[cyc[c].key]]_vars
    /\ [](trackPos = -1 => \A c \in CycleIds : cyc[c].pc = "idle")
    /\ [](resp.status \in {0, 200, 404})
    /\ [](\A k \in Keys :
            (Failed(k) /\ TurnFree)
               => /\ ENABLED GetData(k)
                  /\ TotalFires < MaxFires => ENABLED TimerFire(k))

\* C12 witness: the last cycle that ended failed in its write; the key's
\* timer is armed, a later cycle of the key has fetched and is loading, and
\* a query for the key is being answered with 200.
C12_Witness ==
    \E k \in Keys :
        /\ lastLog = [line |-> "write_error", key |-> k]
        /\ armed[k]
        /\ \E c \in CycleIds : c > NKeys /\ cyc[c].key = k /\ cyc[c].pc = "load"
        /\ resp.route = "data" /\ resp.id = k /\ resp.status = 200

\* C13: the schedule of a key does not wait for any of its cycles, the
\* initial one included: once startTracking has passed ensureDataDir, every
\* key's timer is eventually armed, however long a remote call takes.
C13_ScheduleFixedFromStart ==
    \A k \in Keys : (trackPos >= 1) ~> armed[k]

\* C14: a response of /api/data/:id or /api/growth/:id for an id that is
\* not tracked is the 404, sent without any record having been read; for a
\* tracked id it is a 200 sent after reading that key's record only, and
\* the body of /api/data/:id is the array loadData returned, which is what
\* loadData gives for the key's file.
C14_UntrackedNotFound ==
    resp.route \in {"data", "growth"} =>
        IF resp.id \notin Keys
        THEN resp.status = 404 /\ resp.loaded = {}
        ELSE /\ resp.status = 200
             /\ resp.loaded = {resp.id}
             /\ resp.data \in {loadData(read) : read \in ReadOutcomes(resp.id)}
             /\ resp.route = "data" => resp.body = resp.data

\* C14 witness: the growth route answers 404 for the id that is not
\* tracked, while the tracked keys have histories on file.
C14_Witness ==
    /\ resp = NotFound("growth", UntrackedId)
    /\ \A k \in Keys : disk[k].kind = "json" /\ disk[k].data # <<>>

Finite(f) == f.den > 0

\* C15: computeGrowth returns 0 whenever previous is undefined, null or the
\* number 0, whatever current is, and it returns a number in every call.
C15_ZeroOrMissingBaseline ==
    calc.called =>
        /\ calc.previous \in {Undefined, Null, Num(0)} => calc.result = Zero
        /\ Finite(calc.result)

\* C15 witness: computeGrowth(150, 0) has returned 0.
C15_Witness ==
    calc = [current |-> 150, previous |-> Num(0), called |-> TRUE, result |-> Zero]

\* What computeGrowth returned is ((current - previous) / previous) * 100.
IsPercentage(f, current, previous) ==
    /\ Finite(f)
    /\ GCD(Abs(f.num), f.den) = 1
    /\ f.num * previous = (current - previous) * 100 * f.den

\* C16, as stated: for every current and every previous that is a number
\* other than 0, computeGrowth returns ((current - previous) / previous) *
\* 100, which is negative when current < previous and above 100 when
\* current > 2 * previous; computeGrowth(150, 100) = 50 and
\* computeGrowth(50, 100) = -50.
C16_NonZeroBaseline ==
    (calc.called /\ calc.previous.t = "number" /\ calc.previous.v # 0) =>
        /\ IsPercentage(calc.result, calc.current, calc.previous.v)
        /\ calc.current < calc.previous.v => calc.result.num < 0
        /\ calc.current > 2 * calc.previous.v => calc.result.num > 100 * calc.result.den
        /\ (calc.current = 150 /\ calc.previous.v = 100)
              => calc.result = [num |-> 50, den |-> 1]
        /\ (calc.current = 50 /\ calc.previous.v = 100)
              => calc.result = [num |-> -50, den |-> 1]

\* C16, amended: the value is ((current - previous) / previous) * 100 for
\* every previous other than 0.  For a positive previous it is negative
\* when current < previous and above 100 when current > 2 * previous; for a
\* negative previous it is positive when current < previous and below 100
\* when current > 2 * previous.  computeGrowth(150, 100) = 50 and
\* computeGrowth(50, 100) = -50.
C16_NonZeroBaselineSigned ==
    (calc.called /\ calc.previous.t = "number" /\ calc.previous.v # 0) =>
        /\ IsPercentage(calc.result, calc.current, calc.previous.v)
        /\ calc.previous.v > 0 =>
              /\ calc.current < calc.previous.v => calc.result.num < 0
              /\ calc.current > 2 * calc.previous.v
                    => calc.result.num > 100 * calc.result.den
        /\ calc.previous.v < 0 =>
              /\ calc.current < calc.previous.v => calc.result.num > 0
              /\ calc.current > 2 * calc.previous.v
                    => calc.result.num < 100 * calc.result.den
        /\ (calc.current = 150 /\ calc.previous.v = 100)
              => calc.result = [num |-> 50, den |-> 1]
        /\ (calc.current = 50 /\ calc.previous.v = 100)
              => calc.result = [num |-> -50, den |-> 1]

\* C16 witness: computeGrowth(50, 100) has returned -50.
C16_Witness ==
    calc = [current |-> 50, previous |-> Num(100), called |-> TRUE,
            result |-> [num |-> -50, den |-> 1]]

GrowthFields == {"timestamp", "visitsGrowth", "playingGrowth"}

\* C17: the body the growth route sends for a tracked key has the length
\* of the history loadData returned, and its i-th element has exactly the
\* fields timestamp, visitsGrowth and playingGrowth, with the values of the
\* i-th sample of that history (so neither visits nor playing).
C17_GrowthOnlyProjection ==
    (resp.route = "growth" /\ resp.status = 200) =>
        /\ resp.data \in {loadData(read) : read \in ReadOutcomes(resp.id)}
        /\ Len(resp.body) = Len(resp.data)
        /\ \A i \in 1..Len(resp.data) :
              /\ DOMAIN resp.body[i] = GrowthFields
              /\ \A f \in GrowthFields : resp.body[i][f] = resp.data[i][f]

\* C17 witness: the growth route answers for a key with two samples, the
\* second with the growths 50 and -50.
C17_Witness ==
    /\ resp.route = "growth" /\ resp.status = 200
    /\ Len(resp.body) = 2
    /\ resp.body[2].visitsGrowth = [num |-> 50, den |-> 1]
    /\ resp.body[2].playingGrowth = [num |-> -50, den |-> 1]
    /\ resp.data[2].visits = 150 /\ resp.data[2].playing = 5

\* The steps of the handlers, and the steps of a cycle that write the file.
ReadStep == Query \/ QueryAll \/ ReplySent
FileWrite(c) == WriteOpen(c) \/ WriteReturn(c) \/ WriteFail(c)

\* The frame half of C18: no step of a handler changes a file or a stored
\* history, and every change of a file is a step of a cycle's saveData.
ReadsLeaveRecords ==
    /\ [][ReadStep => (disk' = disk /\ history' = history)]_vars
    /\ [][disk' # disk => \E c \in CycleIds : FileWrite(c)]_vars

\* C18: loadData and the three routes leave every record as it is, only
\* the cycles change a record, and so two loads of a key's record return
\* equal sequences when nothing was appended between them: in particular
\* two loads of the record as it is now.
C18_ReadsDoNotWrite ==
    /\ ReadsLeaveRecords
    /\ [](\A k \in Keys : \A r1 \in ReadOutcomes(k) : \A r2 \in ReadOutcomes(k) :
             loadData(r1) = loadData(r2))

\* C19: a step of a cycle of key k leaves the file and the stored history
\* of every other key as they are, whatever cycles of other keys are in
\* flight, and the history the cycle loads is [] or the content of k's own
\* file.
C19_KeysOwnDisjointRecords ==
    [][\A c \in CycleIds :
         (FetchReturn(c) \/ FileStep(c))
            => /\ \A k \in Keys \ {cyc[c].key} :
                     disk'[k] = disk[k] /\ history'[k] = history[k]
               /\ LoadReturn(c)
                     => SubSeq(cyc'[c].data, 1, Len(cyc'[c].data) - 1)
                           \in {<<>>} \cup
                               (IF disk[cyc[c].key].kind = "json"
                                THEN {disk[cyc[c].key].data} ELSE {})]_vars

\* C19 witness: both keys have a history on record and a cycle of each is
\* in the middle of its write at the same time.
C19_Witness ==
    /\ \A k \in Keys : history[k] # <<>>
    /\ \A k \in Keys :
          \E c \in CycleIds : cyc[c].key = k /\ cyc[c].pc = "writing"

\* typeof x === 'number' ? x : 0
Coerced(x) == IF x.t = "number" THEN x.v ELSE 0

\* The growth of a sample that follows a sample with a count of 0 is 0.
ZeroBaseline(h) ==
    \A i \in 2..Len(h) :
        /\ h[i - 1].visits = 0 => h[i].visitsGrowth = Zero
        /\ h[i - 1].playing = 0 => h[i].playingGrowth = Zero

\* C20: when the remote answer has a data entry, the cycle goes on to its
\* load with nothing logged, taking 0 for a visits or playing that is not
\* a number; the sample it builds carries those values; and in every
\* persisted history the growth of a field is 0 in the sample that follows
\* one where the field is 0.
C20_NonNumericCoerced ==
    /\ [][\A c \in CycleIds :
            /\ \A r \in Responses :
                  (r.kind = "game" /\ FetchAnswer(c, r))
                     => /\ cyc'[c].pc = "load"
                        /\ lastLog' = lastLog
                        /\ cyc'[c].visits = Coerced(r.game.visits)
                        /\ cyc'[c].playing = Coerced(r.game.playing)
            /\ LoadReturn(c)
                  => /\ lastOf(cyc'[c].data).visits = cyc[c].visits
                     /\ lastOf(cyc'[c].data).playing = cyc[c].playing]_vars
    /\ [](\A k \in Keys : \A h \in Persisted(k) : ZeroBaseline(h))

\* C20 witness: a key's history begins with the sample of an answer whose
\* visits and playing were not numbers (0 and 0), followed by a sample
\* with 150 visits and 5 playing whose growths are 0.
C20_Witness ==
    \E k \in Keys :
        /\ disk[k].kind = "json"
        /\ Len(disk[k].data) = 2
        /\ disk[k].data[1].visits = 0 /\ disk[k].data[1].playing = 0
        /\ disk[k].data[2].visits = 150 /\ disk[k].data[2].playing = 5
        /\ disk[k].data[2].visitsGrowth = Zero
        /\ disk[k].data[2].playingGrowth = Zero
        /\ lastLog = [line |-> "recorded", key |-> k]

====
